---- MODULE Spec2Model ----
(***************************************************************************)
(* Client-side error capture and reporting pipeline:                       *)
(*   frontend/src/errors/clientErrorReporter.js  (dedup window, transport, *)
(*                                                global listeners)        *)
(*   frontend/src/errors/ErrorBoundary.jsx       (render-failure boundary, *)
(*                                                two deployed variants)   *)
(*   frontend/src/main.jsx                       (bootstrap)               *)
(*   frontend/vite.config.js                     (dev-server error log,    *)
(*                                                full reload on .py)      *)
(***************************************************************************)
EXTENDS Integers, Sequences, FiniteSets, TLC

(* ---------------------------------------------------------------------- *)
(* Bounds of the model                                                     *)
(* ---------------------------------------------------------------------- *)
\* Date.now() advances in steps of TickMs up to MaxTime.
TickMs == 2500
MaxTime == 7500
\* Captured events (window errors, rejections, render failures) per run.
MaxEvents == 3
\* ErrorBoundary mount instances per run.
MaxInstances == 2
DevTickMs == 60           \* dev server: granularity of the clock (ms)
MaxDevTime == 300         \* dev server: the clock is capped at MaxDevTime
MaxFsEvents == 3          \* watcher events per behaviour
MaxConfigure == 2         \* configureServer invocations (dev server restarts)
MaxDevEvents == 3         \* dev-server error events per behaviour

(* ---------------------------------------------------------------------- *)
(* Program constants                                                       *)
(* ---------------------------------------------------------------------- *)
RECENT_TTL_MS == 5000

(* ---------------------------------------------------------------------- *)
(* JavaScript values and the coercions the code applies to them            *)
(* ---------------------------------------------------------------------- *)
Undefined == [t |-> "undefined", s |-> "", n |-> 0]
Null == [t |-> "null", s |-> "", n |-> 0]
Str(x) == [t |-> "string", s |-> x, n |-> 0]
Num(k) == [t |-> "number", s |-> "", n |-> k]
\* A plain (non-Error) object such as {a: 1}.
PlainObject == [t |-> "object", s |-> "", n |-> 0]

\* ToBoolean, as used by || and by if (...)
Truthy(v) ==
  CASE v.t = "string" -> v.s # ""
    [] v.t = "number" -> v.n # 0
    [] v.t = "object" -> TRUE
    [] OTHER -> FALSE

\* a || b
OrJS(a, b) == IF Truthy(a) THEN a ELSE b

\* String(v)
StringOf(v) ==
  CASE v.t = "string" -> v.s
    [] v.t = "number" -> ToString(v.n)
    [] v.t = "object" -> "[object Object]"
    [] v.t = "null" -> "null"
    [] OTHER -> "undefined"

\* Number.isFinite(v): only numbers are finite (undefined, null, strings are not)
IsFinite(v) == v.t = "number"

\* Thrown / rejected values: nothing, a primitive, or an object exposing
\* .message and .stack (a property that is absent reads as undefined).
NoError == [kind |-> "undefined", prim |-> Undefined, message |-> Undefined, stack |-> Undefined]
PrimThrown(v) == [kind |-> "primitive", prim |-> v, message |-> Undefined, stack |-> Undefined]
ObjThrown(m, st) == [kind |-> "object", prim |-> Undefined, message |-> m, stack |-> st]

\* ToBoolean of a thrown value (e && ...)
TruthyThrown(e) ==
  CASE e.kind = "object" -> TRUE
    [] e.kind = "primitive" -> Truthy(e.prim)
    [] OTHER -> FALSE

(* ---------------------------------------------------------------------- *)
(* Inputs                                                                  *)
(* ---------------------------------------------------------------------- *)
\* Values a child of the boundary throws while rendering.
ThrownValues ==
  { ObjThrown(Str("boom"), Str("Error: boom")),
    ObjThrown(PlainObject, Undefined),
    NoError }

\* 'error' events seen by a capture-phase window listener: the ErrorEvent of
\* an uncaught exception, and the plain Event of a failed resource load (no
\* error, message, filename, lineno or colno).
ErrorEvents ==
  { [error |-> ObjThrown(Str("boom"), Str("Error: boom")), message |-> Str("Uncaught Error: boom"),
     filename |-> Str("c"), lineno |-> Num(1), colno |-> Num(1)],
    [error |-> NoError, message |-> Undefined,
     filename |-> Undefined, lineno |-> Undefined, colno |-> Undefined] }

\* 'unhandledrejection' events: rejected objects exposing message and stack.
RejectionEvents ==
  { [reason |-> ObjThrown(Str("a|b"), Str(""))],
    [reason |-> ObjThrown(Str("a"), Str("b|"))] }

\* Rejected values of every kind the handler tells apart: Errors, an Error
\* with an empty message, objects with only a stack, with a non-string
\* message, with neither field, truthy and falsy primitives, and no value.
AllRejectionEvents ==
  { [reason |-> ObjThrown(Str("boom"), Str("Error: boom"))],
    [reason |-> ObjThrown(Str(""), Str("Error"))],
    [reason |-> ObjThrown(Undefined, Str("trace"))],
    [reason |-> ObjThrown(PlainObject, Undefined)],
    [reason |-> ObjThrown(Undefined, Undefined)],
    [reason |-> PrimThrown(Str("x"))],
    [reason |-> PrimThrown(Num(0))],
    [reason |-> NoError] }

\* Files the dev server's watcher reports, relative to process.cwd(): a
\* backend module, a Python file outside backend/, a frontend source.
FsFiles ==
  { [segs |-> <<"backend", "app">>, base |-> "main", ext |-> "py"],
    [segs |-> <<"scripts">>, base |-> "tool", ext |-> "py"],
    [segs |-> <<"frontend", "src">>, base |-> "App", ext |-> "jsx"] }

\* Watcher event names onFsEvent is registered for.
FsEventNames == {"add", "change", "unlink"}

\* Kinds of dev-server events errorFileLogger hooks.
DevEventKinds ==
  {"console.error", "vite.logger.error", "uncaughtException", "unhandledRejection",
   "http.clientError", "http.error"}

\* Outcomes of one delivery attempt.
FetchModes == {"ok", "serializeThrows", "fetchMissing", "fetchThrows", "rejects"}

ConsoleMethods == {"error", "warn"}
ConsoleArgs == { <<Str("x"), PlainObject>> }

Variants == {"client-error", "logs-frontend"}
ChildrenProps == {"App", "App2"}

\* location.href and navigator.userAgent of the page
Href == Str("http://localhost:5173/")
UserAgent == Str("UA")

(* ---------------------------------------------------------------------- *)
(* State                                                                   *)
(* ---------------------------------------------------------------------- *)
VARIABLES
  now,            \* value of Date.now()
  recent,         \* Map: signature -> expiry timestamp
  moduleLoaded,   \* clientErrorReporter.js has been evaluated
  listeners,      \* window listeners: {[type, handler, capture]}
  consoleLayers,  \* wrapping layers around console.error / console.warn
  consoleCalls,   \* calls that reached the original console methods
  mainState,      \* main.jsx: "pending" | "failed"
  sendLog,        \* history of send() calls
  requests,       \* history of fetch() requests issued
  raised,         \* an exception or unhandled rejection surfaced from send/post
  boundaries,     \* ErrorBoundary instances: <<[variant, state, children, mounted]>>
  escaped,        \* a render failure propagated above a boundary
  dispatched,     \* history of the events handed to the window listeners
  calls,          \* send() calls in progress, statement by statement
  devNow,         \* dev server: clock (ms)
  watching,       \* fullReloadOnBackendPy: watcher listeners registered
  timers,         \* dev server: pending setTimeout timers {[id, due]}
  debounce,       \* fullReloadOnBackendPy: the `debounce` handle (0: undefined)
  fsLog,          \* history of watcher events <<[file, t]>>
  reloads,        \* history of {type: 'full-reload'} messages <<[type, t]>>
  wrappers,       \* errorFileLogger: writeLine hooks installed per event kind
  devEvents,      \* history of dev-server events
  logLines        \* lines appended to frontend-error.log

reloadVars == <<devNow, watching, timers, debounce, fsLog, reloads>>
devLogVars == <<wrappers, devEvents, logLines>>
devVars == <<reloadVars, devLogVars>>

vars == <<now, recent, moduleLoaded, listeners, consoleLayers, consoleCalls,
          mainState, sendLog, requests, raised, boundaries, escaped,
          dispatched, calls, devVars>>

reporterVars == <<recent, sendLog, requests, raised>>
pageVars == <<moduleLoaded, listeners, consoleLayers, mainState>>
boundaryVars == <<boundaries, escaped>>

\* Number of events captured so far.
Captured ==
  Len(sendLog) + Len(consoleCalls)
    + Cardinality({i \in DOMAIN boundaries : boundaries[i].state.hasError})

(* ---------------------------------------------------------------------- *)
(* clientErrorReporter.js                                                  *)
(* ---------------------------------------------------------------------- *)
\* gc that deletes nothing
gc_NoSweep(rec, t) == rec

\* gc(): delete every entry whose expiry is at or before t = now()
gc(rec, t) == [k \in {x \in DOMAIN rec : ~(rec[x] <= t)} |-> rec[k]]

\* sig(obj): `${m}|${s}|${src}|${ln}|${col}`
sig(obj) ==
  LET m == StringOf(OrJS(obj.message, Str("")))
      s == StringOf(OrJS(obj.stack, Str("")))
      src == StringOf(OrJS(obj.source, Str("")))
      ln == IF IsFinite(obj.line) THEN obj.line.n ELSE 0
      col == IF IsFinite(obj.col) THEN obj.col.n ELSE 0
  IN m \o "|" \o s \o "|" \o src \o "|" \o ToString(ln) \o "|" \o ToString(col)

\* JSON.stringify of an object: keys whose value is undefined are dropped,
\* null is kept as null.
JSONBody(payload) ==
  [k \in {x \in DOMAIN payload : payload[x].t # "undefined"} |-> payload[k]]

\* One fetch(path, {method: 'POST', body: JSON.stringify(payload), keepalive})
\* under the given outcome; tryCatch says whether the call sits in try/catch,
\* promiseCatch whether the returned promise has .catch(() => {}) attached.
Deliver(path, payload, mode, tryCatch, promiseCatch) ==
  LET thrown == mode \in {"serializeThrows", "fetchMissing", "fetchThrows"}
      issued == mode \in {"ok", "rejects"}
      rejected == mode = "rejects"
  IN /\ requests' = IF issued
                      THEN Append(requests, [path |-> path, body |-> JSONBody(payload),
                                             t |-> now, arrived |-> mode = "ok"])
                      ELSE requests
     /\ raised' = (raised \/ (thrown /\ ~tryCatch) \/ (rejected /\ ~promiseCatch))

\* post that issues the request a second time when the first is rejected
post_Retry(payload, mode) ==
  LET request == [path |-> "/api/client-error", body |-> JSONBody(payload),
                  t |-> now, arrived |-> mode = "ok"]
  IN /\ requests' = CASE mode = "ok" -> Append(requests, request)
                       [] mode = "rejects" -> Append(Append(requests, request), request)
                       [] OTHER -> requests
     /\ raised' = raised

\* post without its try/catch
post_NoTryCatch(payload, mode) == Deliver("/api/client-error", payload, mode, FALSE, TRUE)

\* post(payload)
post(payload, mode) == Deliver("/api/client-error", payload, mode, TRUE, TRUE)

\* The object literal send() hands to post() (lines 51-61)
WirePayload(entry) ==
  [severity |-> OrJS(entry.severity, Str("error")),
   message |-> OrJS(entry.message, Str("")),
   stack |-> OrJS(entry.stack, Str("")),
   source |-> OrJS(entry.source, Str("")),
   line |-> IF IsFinite(entry.line) THEN entry.line ELSE Num(0),
   col |-> IF IsFinite(entry.col) THEN entry.col ELSE Num(0),
   url |-> Str(StringOf(OrJS(Href, Str("")))),
   userAgent |-> OrJS(UserAgent, Str("")),
   componentStack |-> OrJS(entry.componentStack, Str(""))]

\* Live with the comparison reversed: exp < now()
Live_Reversed(rec, key, t) == key \in DOMAIN rec /\ rec[key] # 0 /\ rec[key] < t

\* if (exp && exp > now()) on the entry found for key after the sweep
Live(rec, key, t) == key \in DOMAIN rec /\ rec[key] # 0 /\ rec[key] > t

\* What one delivery attempt came to.
AttemptOf(mode) ==
  CASE mode \in {"serializeThrows", "fetchMissing", "fetchThrows"} -> "threw"
    [] mode = "rejects" -> "rejected"
    [] OTHER -> "ok"

\* send writing its defaults back into the object it was given
EntryAfterSend_Defaulted(entry) == WirePayload(entry)

\* The fields of the object passed to send() once send() has returned: sig,
\* the lookup and the object literal for post only read them.
EntryAfterSend(entry) == entry

\* The entry send() adds to the history of calls.
SendRecord(entry, key, producer, delivered, attempt) ==
  [entry |-> entry, key |-> key, t |-> now, delivered |-> delivered,
   producer |-> producer, attempt |-> attempt, entryAfter |-> EntryAfterSend(entry)]

\* send that moves the expiry forward when it suppresses a duplicate
send_RefreshOnSuppress(entry, producer, mode) ==
  LET swept == gc(recent, now)
      key == sig(entry)
      set == [k \in DOMAIN swept \cup {key} |->
                IF k = key THEN now + RECENT_TTL_MS ELSE swept[k]]
  IN IF Live(swept, key, now)
       THEN /\ recent' = set
            /\ sendLog' = Append(sendLog, SendRecord(entry, key, producer, FALSE, "none"))
            /\ UNCHANGED <<requests, raised>>
       ELSE /\ recent' = set
            /\ sendLog' = Append(sendLog, SendRecord(entry, key, producer, TRUE,
                                                     AttemptOf(mode)))
            /\ post(WirePayload(entry), mode)

\* send that records the signature only once the request has gone through
send_RecordOnSuccess(entry, producer, mode) ==
  LET swept == gc(recent, now)
      key == sig(entry)
  IN IF Live(swept, key, now)
       THEN /\ recent' = swept
            /\ sendLog' = Append(sendLog, SendRecord(entry, key, producer, FALSE, "none"))
            /\ UNCHANGED <<requests, raised>>
       ELSE /\ recent' = IF AttemptOf(mode) = "ok"
                           THEN [k \in DOMAIN swept \cup {key} |->
                                   IF k = key THEN now + RECENT_TTL_MS ELSE swept[k]]
                           ELSE swept
            /\ sendLog' = Append(sendLog, SendRecord(entry, key, producer, TRUE,
                                                     AttemptOf(mode)))
            /\ post(WirePayload(entry), mode)

\* send(entry), called by producer
send(entry, producer, mode) ==
  LET swept == gc(recent, now)
      key == sig(entry)
  IN IF Live(swept, key, now)
       THEN /\ recent' = swept
            /\ sendLog' = Append(sendLog, SendRecord(entry, key, producer, FALSE, "none"))
            /\ UNCHANGED <<requests, raised>>
       ELSE /\ recent' = [k \in DOMAIN swept \cup {key} |->
                            IF k = key THEN now + RECENT_TTL_MS ELSE swept[k]]
            /\ sendLog' = Append(sendLog, SendRecord(entry, key, producer, TRUE,
                                                     AttemptOf(mode)))
            /\ post(WirePayload(entry), mode)

\* e && e.prop
AndThrown(e, prop) == IF TruthyThrown(e) THEN prop ELSE Undefined

\* The payload onWindowError(event) builds
WindowErrorPayload(event) ==
  LET e == event.error
  IN [severity |-> Str("error"),
      message |-> OrJS(OrJS(AndThrown(e, e.message), event.message), Str("Uncaught error")),
      stack |-> OrJS(AndThrown(e, e.stack), Str("")),
      source |-> OrJS(event.filename, Str("")),
      line |-> IF IsFinite(event.lineno) THEN event.lineno ELSE Num(0),
      col |-> IF IsFinite(event.colno) THEN event.colno ELSE Num(0),
      componentStack |-> Undefined]

\* onWindowError(event)
onWindowError(event, mode) == send(WindowErrorPayload(event), "onWindowError", mode)

\* String(r || d) for a rejected value r
StringOfThrownOr(r, d) ==
  IF ~TruthyThrown(r) THEN d
  ELSE IF r.kind = "object" THEN "[object Object]" ELSE StringOf(r.prim)

\* RejectionPayload with isErr looking for 'message' only
RejectionPayload_MessageOnly(event) ==
  LET r == event.reason
      isErr == TruthyThrown(r) /\ r.kind = "object" /\ r.message.t # "undefined"
  IN [severity |-> Str("error"),
      message |-> IF isErr
                    THEN Str(StringOf(OrJS(r.message, Str("Unhandled rejection"))))
                    ELSE Str(StringOfThrownOr(r, "Unhandled rejection")),
      stack |-> IF isErr THEN Str(StringOf(OrJS(r.stack, Str("")))) ELSE Str(""),
      source |-> Str(""),
      line |-> Num(0),
      col |-> Num(0),
      componentStack |-> Undefined]

\* The payload onUnhandledRejection(event) builds
RejectionPayload(event) ==
  LET r == event.reason
      isErr == /\ TruthyThrown(r)
               /\ r.kind = "object"
               /\ (r.message.t # "undefined" \/ r.stack.t # "undefined")
  IN [severity |-> Str("error"),
      message |-> IF isErr
                    THEN Str(StringOf(OrJS(r.message, Str("Unhandled rejection"))))
                    ELSE Str(StringOfThrownOr(r, "Unhandled rejection")),
      stack |-> IF isErr THEN Str(StringOf(OrJS(r.stack, Str("")))) ELSE Str(""),
      source |-> Str(""),
      line |-> Num(0),
      col |-> Num(0),
      componentStack |-> Undefined]

\* onUnhandledRejection(event)
onUnhandledRejection(event, mode) ==
  send(RejectionPayload(event), "onUnhandledRejection", mode)

\* window.addEventListener(type, handler, capture): a listener with the same
\* type, callback and capture flag as a registered one is discarded.
addEventListener(ls, type, handler, capture) ==
  ls \cup {[type |-> type, handler |-> handler, capture |-> capture]}

\* (function init() { ... })(): the two capture-phase listeners; console is
\* left as it is.
init(ls) ==
  addEventListener(addEventListener(ls, "error", "onWindowError", TRUE),
                   "unhandledrejection", "onUnhandledRejection", TRUE)

\* The default export main.jsx imports as installClientErrorReporter: the
\* module has no export statement.
DefaultExport == "none"

(* ---------------------------------------------------------------------- *)
(* ErrorBoundary.jsx (both variants share constructor, state and render)   *)
(* ---------------------------------------------------------------------- *)
\* info.componentStack as React supplies it
ComponentStack == Str("\n    at App")

\* constructor(props): this.state = { hasError: false, message: '' }
constructor == [hasError |-> FALSE, message |-> Str("")]

\* getDerivedStateFromError setting hasError only for a truthy thrown value
getDerivedStateFromError_Truthy(error) ==
  [hasError |-> TruthyThrown(error),
   message |-> OrJS(AndThrown(error, error.message), Str("RenderError"))]

\* static getDerivedStateFromError(error)
getDerivedStateFromError(error) ==
  [hasError |-> TRUE,
   message |-> OrJS(AndThrown(error, error.message), Str("RenderError"))]

\* render(): the fallback <p>{this.state.message}</p> or this.props.children
render(state, children) ==
  IF state.hasError
    THEN [view |-> "fallback", text |-> state.message]
    ELSE [view |-> "children", text |-> Str(children)]

\* Whether React can render the output: a plain object is not a valid child
\* of <p>, rendering it throws.
Renders(out) == out.text.t # "object"

\* componentDidCatch(error, info) of the variant posting to /api/client-error
componentDidCatchClientError(error, info, mode) ==
  LET payload ==
        [severity |-> Str("error"),
         message |-> OrJS(AndThrown(error, error.message), Str("RenderError")),
         stack |-> OrJS(AndThrown(error, error.stack), Str("")),
         source |-> Str("ReactErrorBoundary"),
         line |-> Num(0),
         col |-> Num(0),
         url |-> IF Truthy(Href) THEN Href ELSE Str(""),
         userAgent |-> IF Truthy(UserAgent) THEN UserAgent ELSE Str(""),
         componentStack |-> OrJS(info, Str(""))]
  IN Deliver("/api/client-error", payload, mode, TRUE, TRUE)

\* componentDidCatch(error, info) of the variant posting to /api/logs/frontend
componentDidCatchLogsFrontend(error, info, mode) ==
  LET payload ==
        [message |-> OrJS(AndThrown(error, error.message), Str("RenderError")),
         stack |-> OrJS(AndThrown(error, error.stack), Null),
         source |-> Str("ReactErrorBoundary"),
         line |-> Null,
         col |-> Null,
         href |-> OrJS(Href, Null),
         userAgent |-> OrJS(UserAgent, Null),
         componentStack |-> OrJS(info, Null)]
  IN Deliver("/api/logs/frontend", payload, mode, TRUE, TRUE)

componentDidCatch(variant, error, info, mode) ==
  IF variant = "client-error"
    THEN componentDidCatchClientError(error, info, mode)
    ELSE componentDidCatchLogsFrontend(error, info, mode)

(* ---------------------------------------------------------------------- *)
(* Initial state and actions                                               *)
(* ---------------------------------------------------------------------- *)
Init ==
  /\ now = 0
  /\ recent = <<>>
  /\ moduleLoaded = FALSE
  /\ listeners = {}
  /\ consoleLayers = 0
  /\ consoleCalls = <<>>
  /\ mainState = "pending"
  /\ sendLog = <<>>
  /\ requests = <<>>
  /\ raised = FALSE
  /\ boundaries = <<>>
  /\ escaped = FALSE
  /\ dispatched = <<>>
  /\ calls = <<>>
  /\ devNow = 0
  /\ watching = FALSE
  /\ timers = {}
  /\ debounce = 0
  /\ fsLog = <<>>
  /\ reloads = <<>>
  /\ wrappers = [k \in DevEventKinds |-> 0]
  /\ devEvents = <<>>
  /\ logLines = <<>>

\* Time passes.
Tick ==
  /\ now + TickMs <= MaxTime
  /\ now' = now + TickMs
  /\ UNCHANGED <<reporterVars, pageVars, consoleCalls, boundaryVars>>
  /\ UNCHANGED <<dispatched, calls, devVars>>

\* The script tag injected into index.html loads clientErrorReporter.js; a
\* module is evaluated once per page, and its evaluation runs init().
LoadReporterModule ==
  /\ ~moduleLoaded
  /\ moduleLoaded' = TRUE
  /\ listeners' = init(listeners)
  /\ UNCHANGED <<now, consoleLayers, consoleCalls, mainState, reporterVars, boundaryVars>>
  /\ UNCHANGED <<dispatched, calls, devVars>>

\* main.jsx: import installClientErrorReporter from the reporter module and
\* call it. The module provides no default export, so nothing is installed
\* by the call and main.jsx does not get past it.
MainInstallCall ==
  /\ mainState = "pending"
  /\ DefaultExport = "none"
  /\ mainState' = "failed"
  /\ UNCHANGED <<now, moduleLoaded, listeners, consoleLayers, consoleCalls,
                 reporterVars, boundaryVars>>
  /\ UNCHANGED <<dispatched, calls, devVars>>

\* An 'error' event reaches window: the registered handler runs.
WindowError ==
  /\ [type |-> "error", handler |-> "onWindowError", capture |-> TRUE] \in listeners
  /\ Captured < MaxEvents
  /\ \E event \in ErrorEvents, mode \in FetchModes :
       /\ onWindowError(event, mode)
       /\ dispatched' = Append(dispatched, event)
  /\ UNCHANGED <<now, pageVars, consoleCalls, boundaryVars, calls, devVars>>

\* An 'unhandledrejection' event, one of events, reaches window: the
\* registered handler runs.
UnhandledRejectionOf(events) ==
  /\ [type |-> "unhandledrejection", handler |-> "onUnhandledRejection",
      capture |-> TRUE] \in listeners
  /\ Captured < MaxEvents
  /\ \E event \in events, mode \in FetchModes :
       /\ onUnhandledRejection(event, mode)
       /\ dispatched' = Append(dispatched, event)
  /\ UNCHANGED <<now, pageVars, consoleCalls, boundaryVars, calls, devVars>>

UnhandledRejection == UnhandledRejectionOf(RejectionEvents)

\* The same, for any kind of rejected value.
AnyUnhandledRejection == UnhandledRejectionOf(AllRejectionEvents)

\* Page code calls console.error(...args) or console.warn(...args): no
\* wrapper was put around them, the original method runs and that is all.
ConsoleCall ==
  /\ Captured < MaxEvents
  /\ \E method \in ConsoleMethods, args \in ConsoleArgs :
       consoleCalls' = Append(consoleCalls, [method |-> method, args |-> args,
                                             installed |-> moduleLoaded])
  /\ UNCHANGED <<now, pageVars, reporterVars, boundaryVars>>
  /\ UNCHANGED <<dispatched, calls, devVars>>

\* React mounts an <ErrorBoundary> around children: a new mount instance.
Mount ==
  /\ Len(boundaries) < MaxInstances
  /\ \E variant \in Variants :
       boundaries' = Append(boundaries, [variant |-> variant, state |-> constructor,
                                         children |-> "App", mounted |-> TRUE])
  /\ UNCHANGED <<now, pageVars, consoleCalls, reporterVars, escaped>>
  /\ UNCHANGED <<dispatched, calls, devVars>>

\* A child of a mounted, healthy boundary throws during render: React applies
\* getDerivedStateFromError and renders the boundary again. If the fallback
\* renders, React commits it and calls componentDidCatch; if the fallback
\* throws too, the failure goes to whatever is above the boundary and the
\* boundary's tree is unmounted.
ChildThrows ==
  /\ Captured < MaxEvents
  /\ \E i \in DOMAIN boundaries, error \in ThrownValues, mode \in FetchModes :
       /\ boundaries[i].mounted
       /\ render(boundaries[i].state, boundaries[i].children).view = "children"
       /\ LET st == getDerivedStateFromError(error)
          IN IF Renders(render(st, boundaries[i].children))
               THEN /\ boundaries' = [boundaries EXCEPT ![i].state = st]
                    /\ componentDidCatch(boundaries[i].variant, error, ComponentStack, mode)
                    /\ UNCHANGED escaped
               ELSE /\ boundaries' = [boundaries EXCEPT ![i].state = st,
                                                        ![i].mounted = FALSE]
                    /\ escaped' = TRUE
                    /\ UNCHANGED <<requests, raised>>
  /\ UNCHANGED <<now, pageVars, consoleCalls, recent, sendLog>>
  /\ UNCHANGED <<dispatched, calls, devVars>>

\* The host passes new children to a mounted boundary: render() runs again
\* with the state it has.
UpdateProps ==
  /\ \E i \in DOMAIN boundaries, children \in ChildrenProps :
       /\ boundaries[i].mounted
       /\ boundaries[i].children # children
       /\ boundaries' = [boundaries EXCEPT ![i].children = children]
  /\ UNCHANGED <<now, pageVars, consoleCalls, reporterVars, escaped>>
  /\ UNCHANGED <<dispatched, calls, devVars>>

(***************************************************************************)
(* The producers statement by statement. A handler runs to completion:     *)
(* send() has no await between gc() and post(), so nothing else of the     *)
(* page runs while a call is in progress.                                  *)
(***************************************************************************)
RunToCompletion == calls = <<>>

\* The call of send() in progress
Call == calls[1]

\* A window listener is invoked for an event and reaches its call of send().
HandlerBegins ==
  /\ RunToCompletion
  /\ Captured < MaxEvents
  /\ \E mode \in FetchModes :
       \/ /\ [type |-> "error", handler |-> "onWindowError", capture |-> TRUE] \in listeners
          /\ \E event \in ErrorEvents :
               /\ calls' = <<[entry |-> WindowErrorPayload(event),
                              producer |-> "onWindowError", mode |-> mode, pc |-> "gc"]>>
               /\ dispatched' = Append(dispatched, event)
       \/ /\ [type |-> "unhandledrejection", handler |-> "onUnhandledRejection",
               capture |-> TRUE] \in listeners
          /\ \E event \in RejectionEvents :
               /\ calls' = <<[entry |-> RejectionPayload(event),
                              producer |-> "onUnhandledRejection", mode |-> mode,
                              pc |-> "gc"]>>
               /\ dispatched' = Append(dispatched, event)
  /\ UNCHANGED <<now, pageVars, consoleCalls, reporterVars, boundaryVars, devVars>>

\* send, line 45: gc()
SendGc ==
  /\ ~RunToCompletion
  /\ Call.pc = "gc"
  /\ recent' = gc(recent, now)
  /\ calls' = <<[Call EXCEPT !.pc = "lookup"]>>
  /\ UNCHANGED <<now, pageVars, consoleCalls, sendLog, requests, raised, boundaryVars,
                 dispatched, devVars>>

\* send, lines 46-48: key = sig(entry); exp = recent.get(key); return if live
SendLookup ==
  /\ ~RunToCompletion
  /\ Call.pc = "lookup"
  /\ IF Live(recent, sig(Call.entry), now)
       THEN /\ sendLog' = Append(sendLog, SendRecord(Call.entry, sig(Call.entry),
                                                     Call.producer, FALSE, "none"))
            /\ calls' = <<>>
       ELSE /\ calls' = <<[Call EXCEPT !.pc = "set"]>>
            /\ UNCHANGED sendLog
  /\ UNCHANGED <<now, pageVars, consoleCalls, recent, requests, raised, boundaryVars,
                 dispatched, devVars>>

\* send, line 49: recent.set(key, now() + RECENT_TTL_MS)
SendSet ==
  /\ ~RunToCompletion
  /\ Call.pc = "set"
  /\ recent' = [k \in DOMAIN recent \cup {sig(Call.entry)} |->
                  IF k = sig(Call.entry) THEN now + RECENT_TTL_MS ELSE recent[k]]
  /\ calls' = <<[Call EXCEPT !.pc = "post"]>>
  /\ UNCHANGED <<now, pageVars, consoleCalls, sendLog, requests, raised, boundaryVars,
                 dispatched, devVars>>

\* send, lines 51-61: post({...}), and the handler returns
SendPost ==
  /\ ~RunToCompletion
  /\ Call.pc = "post"
  /\ post(WirePayload(Call.entry), Call.mode)
  /\ sendLog' = Append(sendLog, SendRecord(Call.entry, sig(Call.entry), Call.producer,
                                           TRUE, AttemptOf(Call.mode)))
  /\ calls' = <<>>
  /\ UNCHANGED <<now, pageVars, consoleCalls, recent, boundaryVars, dispatched, devVars>>

\* React mounts a boundary, between two handlers
BoundaryMounts == RunToCompletion /\ Mount

\* A boundary catches a render error, between two handlers
BoundaryCatches == RunToCompletion /\ ChildThrows

NextConcurrent ==
  \/ LoadReporterModule
  \/ HandlerBegins
  \/ SendGc
  \/ SendLookup
  \/ SendSet
  \/ SendPost
  \/ BoundaryMounts
  \/ BoundaryCatches

SpecConcurrent == Init /\ [][NextConcurrent]_vars

\* The reporter module in the page: its loading, the events its listeners
\* see, and time.
Next ==
  \/ Tick
  \/ LoadReporterModule
  \/ WindowError
  \/ UnhandledRejection

Spec == Init /\ [][Next]_vars

\* Installation: both importers of the reporter module, the events, and the
\* console calls of page code.
NextPage ==
  \/ LoadReporterModule
  \/ MainInstallCall
  \/ WindowError
  \/ UnhandledRejection
  \/ ConsoleCall

SpecPage == Init /\ [][NextPage]_vars

(***************************************************************************)
(* vite.config.js: fullReloadOnBackendPy                                   *)
(***************************************************************************)
DEBOUNCE_MS == 120

\* PATTERNS: path.join(process.cwd(), 'backend', '**', '*.py')
InBackendGlob(file) ==
  /\ Len(file.segs) >= 1
  /\ file.segs[1] = "backend"
  /\ file.ext = "py"

\* file.endsWith('.py')
EndsWithPy(file) == file.ext = "py"

\* The watcher events that called scheduleReload
Qualifying == {i \in DOMAIN fsLog : EndsWithPy(fsLog[i].file)}

Min(S) == CHOOSE x \in S : \A y \in S : x <= y

\* scheduleReload without clearTimeout(debounce)
scheduleReload_NoClear ==
  LET id == Len(fsLog) + 1
  IN /\ timers' = timers \cup {[id |-> id, due |-> devNow + DEBOUNCE_MS]}
     /\ debounce' = id

\* scheduleReload(): clearTimeout(debounce); debounce = setTimeout(..., 120)
scheduleReload ==
  LET id == Len(fsLog) + 1
      cleared == {tm \in timers : tm.id # debounce}
  IN /\ timers' = cleared \cup {[id |-> id, due |-> devNow + DEBOUNCE_MS]}
     /\ debounce' = id

\* onFsEvent(file)
onFsEvent(file) ==
  IF EndsWithPy(file)
    THEN scheduleReload
    ELSE UNCHANGED <<timers, debounce>>

\* A timer that is due runs before anything else the event loop has to do.
TimerDue == \E tm \in timers : tm.due <= devNow

\* configureServer(server) of fullReloadOnBackendPy: the three listeners are
\* registered on the server's watcher.
ConfigureReload ==
  /\ ~watching
  /\ watching' = TRUE
  /\ UNCHANGED <<devNow, timers, debounce, fsLog, reloads, devLogVars>>
  /\ UNCHANGED <<now, reporterVars, pageVars, consoleCalls, boundaryVars, dispatched, calls>>

\* The watcher emits 'add', 'change' or 'unlink' for a file.
FsEvent ==
  /\ watching
  /\ ~TimerDue
  /\ Len(fsLog) < MaxFsEvents
  /\ \E name \in FsEventNames, file \in FsFiles :
       /\ onFsEvent(file)
       /\ fsLog' = Append(fsLog, [file |-> file, t |-> devNow])
  /\ UNCHANGED <<devNow, watching, reloads, devLogVars>>
  /\ UNCHANGED <<now, reporterVars, pageVars, consoleCalls, boundaryVars, dispatched, calls>>

\* The debounce timer fires: server.ws.send({ type: 'full-reload' })
FireTimer ==
  /\ \E tm \in timers :
       /\ tm.due <= devNow
       /\ timers' = timers \ {tm}
       /\ reloads' = Append(reloads, [type |-> "full-reload", t |-> devNow])
  /\ UNCHANGED <<devNow, watching, debounce, fsLog, devLogVars>>
  /\ UNCHANGED <<now, reporterVars, pageVars, consoleCalls, boundaryVars, dispatched, calls>>

\* Time passes on the dev server, never beyond the next timer's due time.
DevTick ==
  /\ ~TimerDue
  /\ devNow < MaxDevTime
  /\ \E step \in {DevTickMs, DEBOUNCE_MS} :
       LET target == Min({devNow + step, MaxDevTime} \cup {tm.due : tm \in timers})
       IN devNow' = target
  /\ UNCHANGED <<watching, timers, debounce, fsLog, reloads, devLogVars>>
  /\ UNCHANGED <<now, reporterVars, pageVars, consoleCalls, boundaryVars, dispatched, calls>>

NextReload ==
  \/ ConfigureReload
  \/ FsEvent
  \/ FireTimer
  \/ DevTick

SpecReload == Init /\ [][NextReload]_vars

(***************************************************************************)
(* vite.config.js: errorFileLogger                                         *)
(***************************************************************************)
\* Hooks that live on the process and survive the server they were
\* installed for: the console.error wrapper and the process.on listeners.
ProcessWideKinds == {"console.error", "uncaughtException", "unhandledRejection"}

\* Hooks on the server object passed to configureServer
HttpKinds == {"http.clientError", "http.error"}

\* The hooks in place after configureServer(server) on a new server object:
\* console.error is wrapped around whatever it was, process.on adds a
\* listener, the new server's logger is wrapped once, and its httpServer,
\* when it has one, gets one listener per event.
HooksAfterConfigure(w, hasHttpServer) ==
  [k \in DevEventKinds |->
     CASE k \in ProcessWideKinds -> w[k] + 1
       [] k \in HttpKinds -> IF hasHttpServer THEN 1 ELSE 0
       [] OTHER -> 1]

\* writeLine(prefix, args): one line appended to the log file
writeLine(lines, prefix, ev) == lines \o <<[prefix |-> prefix, ev |-> ev]>>

RECURSIVE RunHooks(_, _, _, _)
\* The n hooks installed for an event each call writeLine
RunHooks(lines, prefix, ev, n) ==
  IF n = 0 THEN lines ELSE RunHooks(writeLine(lines, prefix, ev), prefix, ev, n - 1)

\* configureServer(server) of errorFileLogger
ConfigureLogger ==
  /\ wrappers["console.error"] < MaxConfigure
  /\ \E hasHttpServer \in BOOLEAN :
       wrappers' = HooksAfterConfigure(wrappers, hasHttpServer)
  /\ UNCHANGED <<devEvents, logLines, reloadVars>>
  /\ UNCHANGED <<now, reporterVars, pageVars, consoleCalls, boundaryVars, dispatched, calls>>

\* One hooked event happens (a console.error call, a Vite logger error, an
\* uncaught exception, ...): every hook installed for it calls writeLine.
DevEvent ==
  /\ Len(devEvents) < MaxDevEvents
  /\ \E kind \in DevEventKinds :
       /\ wrappers[kind] > 0
       /\ devEvents' = Append(devEvents, kind)
       /\ logLines' = RunHooks(logLines, kind, Len(devEvents) + 1, wrappers[kind])
  /\ UNCHANGED <<wrappers, reloadVars>>
  /\ UNCHANGED <<now, reporterVars, pageVars, consoleCalls, boundaryVars, dispatched, calls>>

NextDevLog ==
  \/ ConfigureLogger
  \/ DevEvent

SpecDevLog == Init /\ [][NextDevLog]_vars

\* The unhandled-rejection handler over every kind of rejected value.
NextRejection ==
  \/ LoadReporterModule
  \/ AnyUnhandledRejection

SpecRejection == Init /\ [][NextRejection]_vars

\* The render boundary under React. It shares no state with the reporter
\* module: componentDidCatch reads neither recent nor the listeners.
NextBoundary ==
  \/ Mount
  \/ ChildThrows
  \/ UpdateProps

SpecBoundary == Init /\ [][NextBoundary]_vars

(* ---------------------------------------------------------------------- *)
(* Properties                                                              *)
(* ---------------------------------------------------------------------- *)
\* Two records agree on message, stack, source, line and col.
SameRecord(a, b) ==
  /\ a.message = b.message
  /\ a.stack = b.stack
  /\ a.source = b.source
  /\ a.line = b.line
  /\ a.col = b.col

Delivered == {i \in DOMAIN sendLog : sendLog[i].delivered}

\* C1: a delivered record opens a window of RECENT_TTL_MS; every later send()
\* of an identical record (same message, stack, source, line, col) made inside
\* that window is suppressed, so exactly one call of the burst reaches post(),
\* and no two requests for the same record are issued inside one window.
C1_BurstDeliveredOnce ==
  /\ \A i, j \in DOMAIN sendLog :
       ( /\ i < j
         /\ sendLog[i].delivered
         /\ SameRecord(sendLog[i].entry, sendLog[j].entry)
         /\ sendLog[j].t < sendLog[i].t + RECENT_TTL_MS )
       => ~sendLog[j].delivered
  /\ \A p, q \in DOMAIN requests :
       ( /\ p < q
         /\ SameRecord(requests[p].body, requests[q].body) )
       => requests[q].t >= requests[p].t + RECENT_TTL_MS

\* A burst of three identical records inside one window: the first delivered,
\* the two after it (one of them later in time) suppressed.
C1_Witness ==
  \E i, j, k \in DOMAIN sendLog :
    /\ i < j /\ j < k
    /\ sendLog[i].delivered /\ ~sendLog[j].delivered /\ ~sendLog[k].delivered
    /\ SameRecord(sendLog[i].entry, sendLog[j].entry)
    /\ SameRecord(sendLog[i].entry, sendLog[k].entry)
    /\ sendLog[i].t < sendLog[k].t
    /\ sendLog[k].t < sendLog[i].t + RECENT_TTL_MS
    /\ Len(requests) = 1

\* C2: a record sent again once RECENT_TTL_MS has elapsed since every earlier
\* send of an identical record (delivered or suppressed) is delivered again.
C2_DeliveredAgainAfterTTL ==
  \A j \in DOMAIN sendLog :
    ( /\ \E i \in 1..(j - 1) : SameRecord(sendLog[i].entry, sendLog[j].entry)
      /\ \A i \in 1..(j - 1) :
           SameRecord(sendLog[i].entry, sendLog[j].entry)
             => sendLog[j].t >= sendLog[i].t + RECENT_TTL_MS )
    => sendLog[j].delivered

\* C3: a record is never suppressed because of a different record: every
\* suppressed send() has an identical record delivered earlier inside the
\* window it falls in.
C3_NoFalsePositiveSuppression ==
  \A j \in DOMAIN sendLog :
    ~sendLog[j].delivered
      => \E i \in 1..(j - 1) :
           /\ sendLog[i].delivered
           /\ SameRecord(sendLog[i].entry, sendLog[j].entry)
           /\ sendLog[j].t < sendLog[i].t + RECENT_TTL_MS

\* C4: once the reporter module has been loaded and main.jsx has made its
\* install call, there is exactly one handler for uncaught errors, exactly one
\* for unhandled rejections and exactly one console-wrapping layer.
C4_InstalledExactlyOnce ==
  (moduleLoaded /\ mainState # "pending")
    => /\ Cardinality({l \in listeners : l.type = "error"}) = 1
       /\ Cardinality({l \in listeners : l.type = "unhandledrejection"}) = 1
       /\ consoleLayers = 1

\* C5: whatever the outcome of the delivery attempt, nothing surfaces from
\* send()/post() to its caller: no exception, no unhandled rejection.
C5_TransportNeverRaises == ~raised

\* Deliveries were attempted while offline (the promise rejected) and with an
\* exception thrown inside post() (a delivered record without a request).
C5_Witness ==
  /\ ~raised
  /\ \E p \in DOMAIN requests : ~requests[p].arrived
  /\ Cardinality(Delivered) > Len(requests)

\* C6: a render failure below a boundary never propagates above it: every
\* boundary that caught a failure is still mounted and shows its fallback.
C6_FailureContained ==
  /\ ~escaped
  /\ \A i \in DOMAIN boundaries :
       boundaries[i].state.hasError
         => /\ boundaries[i].mounted
            /\ Renders(render(boundaries[i].state, boundaries[i].children))

\* C7: a mount instance starts Healthy, every render failure beneath it moves
\* it to Failed, and a Failed instance never becomes Healthy again.
C7_FailedIsTerminal ==
  [][ /\ \A i \in DOMAIN boundaries :
           /\ i \in DOMAIN boundaries'
           /\ boundaries[i].state.hasError => boundaries'[i].state.hasError
      /\ \A i \in DOMAIN boundaries' \ DOMAIN boundaries :
           ~boundaries'[i].state.hasError
      /\ ChildThrows =>
           \E i \in DOMAIN boundaries :
             ~boundaries[i].state.hasError /\ boundaries'[i].state.hasError ]_vars

\* A Failed instance that is still mounted and has since been given new
\* children, next to a Healthy one.
C7_Witness ==
  \E i, j \in DOMAIN boundaries :
    /\ boundaries[i].state.hasError
    /\ boundaries[i].mounted
    /\ boundaries[i].children = "App2"
    /\ render(boundaries[i].state, boundaries[i].children).view = "fallback"
    /\ ~boundaries[j].state.hasError

\* C8: render-failure records pass the dedup window: two requests carrying an
\* identical record (message, stack, source, line, col) are never issued
\* within RECENT_TTL_MS of each other.
C8_BoundaryRecordsDeduplicated ==
  \A p, q \in DOMAIN requests :
    ( /\ p < q
      /\ requests[p].body.source = Str("ReactErrorBoundary")
      /\ requests[p].body.message = requests[q].body.message
      /\ requests[p].body.stack = requests[q].body.stack
      /\ requests[p].body.source = requests[q].body.source
      /\ requests[p].body.line = requests[q].body.line
      /\ requests[p].body.col = requests[q].body.col )
    => requests[q].t >= requests[p].t + RECENT_TTL_MS

\* C9: every console.error / console.warn call made once the reporter is
\* installed has run the original method and has a record with source
\* "console" and the severity of the method passed to send().
C9_ConsoleCallsCaptured ==
  \A c \in DOMAIN consoleCalls :
    consoleCalls[c].installed
      => \E i \in DOMAIN sendLog :
           /\ sendLog[i].entry.source = Str("console")
           /\ sendLog[i].entry.severity = Str(consoleCalls[c].method)

WireFields ==
  {"severity", "message", "stack", "source", "line", "col", "url", "userAgent",
   "componentStack"}

\* C10: every body posted carries all nine fields, none null or undefined,
\* severity error or warn, line and col non-negative numbers.
C10_WireRecordTotal ==
  \A p \in DOMAIN requests :
    LET b == requests[p].body
    IN /\ WireFields \subseteq DOMAIN b
       /\ \A f \in WireFields : b[f].t \notin {"undefined", "null"}
       /\ b.severity \in {Str("error"), Str("warn")}
       /\ b.line.t = "number" /\ b.line.n >= 0
       /\ b.col.t = "number" /\ b.col.n >= 0

\* The rejection events among those dispatched.
Rejections == {i \in DOMAIN dispatched : "reason" \in DOMAIN dispatched[i]}

\* A rejected value exposes message/stack fields.
Exposes(r) ==
  r.kind = "object" /\ (r.message.t # "undefined" \/ r.stack.t # "undefined")

\* The string form of a rejected value.
StringForm(r) ==
  CASE r.kind = "object" -> "[object Object]"
    [] r.kind = "primitive" -> StringOf(r.prim)
    [] OTHER -> "undefined"

\* C11 as stated: one record per rejection event; message and stack are the
\* rejected value's fields when it exposes them, otherwise the message is the
\* string form of the value and the stack is empty; source empty, line and
\* col 0.
C11_RejectionRecord ==
  /\ Len(sendLog) = Len(dispatched)
  /\ \A i \in Rejections :
       LET r == dispatched[i].reason
           e == sendLog[i].entry
       IN /\ Exposes(r) => (e.message = r.message /\ e.stack = r.stack)
          /\ ~Exposes(r) => (e.message = Str(StringForm(r)) /\ e.stack = Str(""))
          /\ e.source = Str("") /\ e.line = Num(0) /\ e.col = Num(0)

\* C11 amended: the fields are taken in string form, an empty or absent
\* message and a falsy rejected value give the placeholder
\* 'Unhandled rejection', an absent stack gives ''.
C11_RejectionRecordWithPlaceholder ==
  /\ Len(sendLog) = Len(dispatched)
  /\ \A i \in Rejections :
       LET r == dispatched[i].reason
           e == sendLog[i].entry
       IN /\ Exposes(r) =>
               /\ e.message = Str(IF Truthy(r.message) THEN StringOf(r.message)
                                                       ELSE "Unhandled rejection")
               /\ e.stack = Str(IF Truthy(r.stack) THEN StringOf(r.stack) ELSE "")
          /\ ~Exposes(r) =>
               /\ e.message = Str(IF TruthyThrown(r) THEN StringForm(r)
                                                     ELSE "Unhandled rejection")
               /\ e.stack = Str("")
          /\ e.source = Str("") /\ e.line = Num(0) /\ e.col = Num(0)

\* Rejections of new Error("boom"), of an object with only a stack and of no
\* value at all have been captured.
C11_Witness ==
  /\ \E i \in Rejections :
       /\ dispatched[i].reason = ObjThrown(Str("boom"), Str("Error: boom"))
       /\ sendLog[i].entry.message = Str("boom")
       /\ sendLog[i].entry.stack # Str("")
  /\ \E i \in Rejections : dispatched[i].reason = ObjThrown(Undefined, Str("trace"))
  /\ \E i \in Rejections :
       /\ dispatched[i].reason = NoError
       /\ sendLog[i].entry.message = Str("Unhandled rejection")

\* C12 as stated: a full-reload message is sent only if a watcher event has
\* occurred for a file matching the backend glob.
C12_ReloadOnlyForBackendGlob ==
  \A i \in DOMAIN reloads :
    \E j \in DOMAIN fsLog :
      /\ fsLog[j].t <= reloads[i].t
      /\ InBackendGlob(fsLog[j].file)

\* C13 as stated: the number of lines appended to the log file equals the
\* number of captured events.
C13_OneLinePerEvent == Len(logLines) = Len(devEvents)

\* The last call of send(), when there is one
LastSend == sendLog[Len(sendLog)]

\* The calls of send() delivered under signature k
DeliveredAs(k) == {i \in Delivered : sendLog[i].key = k}

Max(S) == CHOOSE x \in S : \A y \in S : x >= y

\* C14: a send() that suppresses a duplicate adds no entry to the map and
\* changes the expiry of none, its own signature's included; so the expiry
\* held for a signature is always RECENT_TTL_MS after the last record
\* delivered under it.
C14_SuppressedDoesNotRefresh ==
  /\ [](\A k \in DOMAIN recent :
          /\ DeliveredAs(k) # {}
          /\ recent[k] = Max({sendLog[i].t : i \in DeliveredAs(k)}) + RECENT_TTL_MS)
  /\ [][ ( /\ Len(sendLog') = Len(sendLog) + 1
           /\ ~sendLog'[Len(sendLog')].delivered )
         => ( /\ DOMAIN recent' \subseteq DOMAIN recent
              /\ \A k \in DOMAIN recent' : recent'[k] = recent[k]
              /\ sendLog'[Len(sendLog')].key \in DOMAIN recent' ) ]_vars

\* A duplicate has been suppressed some time after the record it repeats was
\* delivered, and the expiry is still the one set at the delivery.
C14_Witness ==
  /\ Len(sendLog) >= 2
  /\ ~LastSend.delivered
  /\ \E i \in Delivered :
       /\ sendLog[i].key = LastSend.key
       /\ sendLog[i].t < LastSend.t
       /\ recent[LastSend.key] = sendLog[i].t + RECENT_TTL_MS

\* C15: right after a send() at time t (no time has passed since), the map
\* holds only entries with expiry > t, each under the signature of a record
\* delivered during the trailing RECENT_TTL_MS, with that delivery's window
\* as its expiry.
C15_OnlyLiveEntriesAfterSend ==
  (Len(sendLog) > 0 /\ LastSend.t = now) =>
    \A k \in DOMAIN recent :
      /\ recent[k] > now
      /\ \E i \in DeliveredAs(k) :
           /\ sendLog[i].t > now - RECENT_TTL_MS
           /\ sendLog[i].t <= now
           /\ recent[k] = sendLog[i].t + RECENT_TTL_MS

\* A send() has just swept an entry that had expired, and holds a live one.
C15_Witness ==
  /\ Len(sendLog) > 0
  /\ LastSend.t = now
  /\ DOMAIN recent # {}
  /\ \E i \in Delivered :
       /\ sendLog[i].t + RECENT_TTL_MS <= now
       /\ sendLog[i].key \notin DOMAIN recent

\* The delivered calls whose one attempt got as far as issuing the request
Issued == {i \in Delivered : sendLog[i].attempt # "threw"}

\* C16 as stated: the number of requests issued equals the number of
\* non-suppressed send() calls, whatever the outcomes.
C16_OneRequestPerDelivered == Len(requests) = Cardinality(Delivered)

\* C16 amended: a non-suppressed send() issues one request unless its attempt
\* throws before the request leaves (serialization or fetch itself), then
\* none; a request is issued only by the send() it belongs to, so never
\* again later: the requests issued are as many as the non-suppressed calls
\* whose attempt did not throw.
C16_OneRequestPerAttemptNotThrown ==
  /\ [](Len(requests) = Cardinality(Issued))
  /\ [][ Len(requests') # Len(requests)
         => ( /\ Len(requests') = Len(requests) + 1
              /\ Len(sendLog') = Len(sendLog) + 1
              /\ sendLog'[Len(sendLog')].delivered
              /\ sendLog'[Len(sendLog')].attempt # "threw"
              /\ requests'[Len(requests')].t = sendLog'[Len(sendLog')].t ) ]_vars

\* One delivered call's request was rejected, another's attempt threw, and a
\* third went through: two requests for three delivered calls.
C16_Witness ==
  /\ \E i \in Delivered : sendLog[i].attempt = "rejected"
  /\ \E i \in Delivered : sendLog[i].attempt = "threw"
  /\ \E i \in Delivered : sendLog[i].attempt = "ok"
  /\ Len(requests) = 2

\* The times of the qualifying watcher events
QualifyingTimes == {fsLog[i].t : i \in Qualifying}

\* The times at which a burst of qualifying events ends: no qualifying event
\* follows less than DEBOUNCE_MS later.
BurstEnds ==
  {t \in QualifyingTimes :
     ~\E u \in QualifyingTimes : t < u /\ u < t + DEBOUNCE_MS}

\* C17: at most one reload timer is pending at any time; every full-reload is
\* sent DEBOUNCE_MS after the last event of a burst of qualifying events
\* (consecutive events less than DEBOUNCE_MS apart), and every burst gets
\* exactly one: it has been sent, or its timer is the one pending.
C17_OneReloadPerBurst ==
  /\ Cardinality(timers) <= 1
  /\ \A tm \in timers : tm.id = debounce
  /\ \A i \in DOMAIN reloads : reloads[i].t - DEBOUNCE_MS \in BurstEnds
  /\ \A i, j \in DOMAIN reloads : i # j => reloads[i].t # reloads[j].t
  /\ \A t \in BurstEnds :
       LET sent == {i \in DOMAIN reloads : reloads[i].t = t + DEBOUNCE_MS}
           pending == {tm \in timers : tm.due = t + DEBOUNCE_MS}
       IN Cardinality(sent) + Cardinality(pending) = 1

\* Two bursts have come and gone: the first of two events less than
\* DEBOUNCE_MS apart, then a single event; two reloads were sent, the first
\* DEBOUNCE_MS after the second event.
C17_Witness ==
  /\ Len(reloads) = 2
  /\ Cardinality(Qualifying) = 3
  /\ \E i, j \in Qualifying :
       /\ fsLog[i].t < fsLog[j].t
       /\ fsLog[j].t < fsLog[i].t + DEBOUNCE_MS
       /\ reloads[1].t = fsLog[j].t + DEBOUNCE_MS
  /\ timers = {}

Failed == {i \in Delivered : sendLog[i].attempt \in {"threw", "rejected"}}

\* C20: the signature of a delivered record is recorded whatever becomes of
\* the attempt: after an attempt that failed (serialization or fetch threw,
\* or the request was rejected), every identical record sent during the
\* next RECENT_TTL_MS is suppressed, and no request under that signature
\* reaches the endpoint in that window.
C20_FailedAttemptStillSuppresses ==
  \A i \in Failed :
    /\ \A j \in DOMAIN sendLog :
         ( /\ i < j
           /\ SameRecord(sendLog[i].entry, sendLog[j].entry)
           /\ sendLog[j].t < sendLog[i].t + RECENT_TTL_MS )
         => ~sendLog[j].delivered
    /\ \A q \in DOMAIN requests :
         ( /\ sig(requests[q].body) = sendLog[i].key
           /\ requests[q].t >= sendLog[i].t
           /\ requests[q].t < sendLog[i].t + RECENT_TTL_MS )
         => ~requests[q].arrived

\* An attempt threw, another was rejected, and identical records sent later
\* inside their windows were suppressed.
C20_Witness ==
  /\ \E i \in Failed : sendLog[i].attempt = "threw"
  /\ \E i \in Failed :
       /\ sendLog[i].attempt = "rejected"
       /\ \E j \in DOMAIN sendLog :
            /\ i < j
            /\ SameRecord(sendLog[i].entry, sendLog[j].entry)
            /\ sendLog[j].t > sendLog[i].t
            /\ sendLog[j].t < sendLog[i].t + RECENT_TTL_MS
            /\ ~sendLog[j].delivered

\* C18 as stated: of two identical records raised by any of the producers
\* (uncaught-error handler, unhandled-rejection handler, render boundary)
\* within RECENT_TTL_MS of each other, at most one is delivered: no two
\* requests to the same endpoint carry the same body inside one window.
C18_IdenticalNeverBothDelivered ==
  \A p, q \in DOMAIN requests :
    ( /\ p < q
      /\ requests[p].path = requests[q].path
      /\ requests[p].body = requests[q].body )
    => requests[q].t >= requests[p].t + RECENT_TTL_MS

====
